---- MODULE Spec2Model ----
(***************************************************************************)
(* A model of strava_activity.py: the OAuth token manager with its file    *)
(* cache and loopback listener, the two data calls, the word count and the *)
(* orchestration that rewrites the "yap score" of the latest activity.     *)
(*                                                                         *)
(* Text is modelled as sequences of one-character strings, so that         *)
(* split, strip, the substring test and number formatting are computed.    *)
(***************************************************************************)
EXTENDS Integers, Sequences, FiniteSets, TLC

VARIABLES
    file,            \* content of strava_tokens.json
    now,             \* time.time()
    pc,              \* position of the main thread
    caller,          \* who called the running function: "main", "test" or "none"
    server,          \* the loopback HTTPServer: "none", "serving", "closed"
    auth_code,       \* server.auth_code
    http_reply,      \* status of the last answer sent by do_GET (0: none yet)
    data,            \* the "code" field of the token-exchange POST
    tokens,          \* local `tokens` of get_access_token
    response,        \* the last HTTP response received (or the transport error)
    retval,          \* outcome of the function called last
    activity,        \* local `activity` of the orchestration
    new_description, \* local `new_description` of the orchestration
    events,          \* history: side effects of the current run, in order
    fileAtCall,      \* history: the token file when the current call began
    loadNow,         \* history: time.time() read by load_tokens (-1: not yet)
    rejected,        \* history: a 401 was answered and no new record saved since
    run,             \* history: what the current or last run is: "main", "test"
    lastReq,         \* history: the request do_GET handled last: "", "nocode" or its code
    firstCode,       \* history: the code of the first code-bearing request ("": none yet)
    waitCode,        \* history: server.auth_code as read when the wait loop ended
    postNow,         \* history: the time the exchange POST was answered (-1: not yet)
    title,           \* text specification: the activity's title
    word_count,      \* text specification: count_words(title), -1 before
    description,     \* text specification: the activity's description
    prev,            \* text specification: the description before the rewrite
    applied,         \* text specification: number of rewrites so far
    tpc              \* text specification: "title", "counted" or "written"

progVars == <<file, now, pc, caller, server, auth_code, http_reply, data,
              tokens, response, retval, activity, new_description, events,
              fileAtCall, loadNow, rejected, run,
              lastReq, firstCode, waitCode, postNow>>
histVars == <<lastReq, firstCode, waitCode, postNow>>
textVars == <<title, word_count, description, prev, applied, tpc>>
vars == <<file, now, pc, caller, server, auth_code, http_reply, data,
          tokens, response, retval, activity, new_description, events,
          fileAtCall, loadNow, rejected, run,
          lastReq, firstCode, waitCode, postNow,
          title, word_count, description, prev, applied, tpc>>

----------------------------------------------------------------------------
(* Bounds of the model.                                                    *)

MaxTime == 3
MaxExpiresIn == 2
MaxTitleLen == 3
MaxPieces == 3
MaxApplied == 2

----------------------------------------------------------------------------
(* Text.                                                                   *)

\* The characters str.split() and str.strip() treat as whitespace (those used).
Whitespace == {" ", "\n", "\t"}

\* The literal "yap score:" of the orchestration.
Marker == <<"y", "a", "p", " ", "s", "c", "o", "r", "e", ":">>

Digits == <<"0", "1", "2", "3", "4", "5", "6", "7", "8", "9">>

\* f"{word_count}": the decimal digits of a natural number.
RECURSIVE Str(_)
Str(n) ==
    IF n < 10 THEN <<Digits[n + 1]>>
    ELSE Str(n \div 10) \o <<Digits[(n % 10) + 1]>>

\* Length of the leading run of non-whitespace characters of s.
RECURSIVE TokenLen(_)
TokenLen(s) ==
    IF s = <<>> \/ Head(s) \in Whitespace THEN 0
    ELSE 1 + TokenLen(Tail(s))

\* text.split(): the maximal runs of non-whitespace characters, in order.
RECURSIVE Split(_)
Split(text) ==
    IF text = <<>> THEN <<>>
    ELSE IF Head(text) \in Whitespace THEN Split(Tail(text))
    ELSE LET n == TokenLen(text)
         IN  <<SubSeq(text, 1, n)>> \o Split(SubSeq(text, n + 1, Len(text)))

count_words_split_on_blank(text) ==
    \* text.split(" "): every single blank separates, empty tokens are kept
    1 + Cardinality({i \in 1..Len(text) : text[i] = " "})

\* count_words(text): len(text.split())
count_words(text) == Len(Split(text))

\* The positions at which sub occurs in s.
Occurrences(sub, s) ==
    {i \in 1..(Len(s) - Len(sub) + 1) : SubSeq(s, i, i + Len(sub) - 1) = sub}

\* `sub in s`
Contains(sub, s) == Occurrences(sub, s) # {}

\* s.split(sub)[0] when sub occurs in s: what precedes the first occurrence.
SplitFirst(s, sub) ==
    LET i == CHOOSE k \in Occurrences(sub, s) :
                 \A j \in Occurrences(sub, s) : k <= j
    IN  SubSeq(s, 1, i - 1)

RECURSIVE LStrip(_)
LStrip(s) ==
    IF s # <<>> /\ Head(s) \in Whitespace THEN LStrip(Tail(s)) ELSE s

RECURSIVE RStrip(_)
RStrip(s) ==
    IF s # <<>> /\ s[Len(s)] \in Whitespace
    THEN RStrip(SubSeq(s, 1, Len(s) - 1)) ELSE s

\* s.strip(): leading and trailing whitespace removed.
Strip(s) == LStrip(RStrip(s))

strip_prior_keep_all(cur) ==
    \* a rewrite that forgets to cut at the marker
    cur

\* Lines 231-232: remove any existing yap score from the description.
strip_prior(cur) ==
    IF Contains(Marker, cur) THEN Strip(SplitFirst(cur, Marker)) ELSE cur

\* Line 234: f"{current_description}\n\nyap score: {word_count}"
format_description(cur, n) ==
    cur \o <<"\n", "\n">> \o Marker \o <<" ">> \o Str(n)

\* Lines 231-234 together.
rewrite(cur, n) == format_description(strip_prior(cur), n)

----------------------------------------------------------------------------
(* Inputs of the text specification.                                       *)

TitleChars == {" ", "\n", "a"}

\* Every string over TitleChars of length at most n.
RECURSIVE StringsUpTo(_)
StringsUpTo(n) ==
    IF n = 0 THEN {<<>>}
    ELSE LET shorter == StringsUpTo(n - 1)
         IN  shorter \cup {<<c>> \o s : c \in TitleChars,
                                        s \in {t \in shorter : Len(t) = n - 1}}

Titles == StringsUpTo(MaxTitleLen)

\* Descriptions are built from these pieces: whitespace, text, the marker
\* and a proper prefix of the marker.
Pieces == {<<" ">>, <<"\n">>, <<"a">>, Marker, <<"y", "a", "p">>}

RECURSIVE PiecesUpTo(_)
PiecesUpTo(n) ==
    IF n = 0 THEN {<<>>}
    ELSE LET shorter == PiecesUpTo(n - 1)
         IN  shorter \cup {p \o s : p \in Pieces, s \in shorter}

Descriptions == PiecesUpTo(MaxPieces)

\* The titles a later run may find (the activity was renamed).
NextTitles == {<<>>, <<"a">>, <<"a", " ", "a">>}

----------------------------------------------------------------------------
(* Values of the program.                                                  *)

\* What strava_tokens.json can hold. Only kind "record" is a JSON object
\* with a numeric expires_at; the other kinds are: no file, a file that is
\* not JSON, JSON that is not an object, an object without expires_at, an
\* object whose expires_at is not a number.
NoRecord(kind) ==
    [kind |-> kind, access_token |-> "", refresh_token |-> "",
     expires_in |-> 0, expires_at |-> 0]

Absent == NoRecord("absent")

None == NoRecord("None")

UnusableKinds ==
    {"absent", "not_json", "not_object", "no_expires_at", "bad_expires_at"}

\* Records left by an earlier exchange.
OldRecords ==
    {[kind |-> "record", access_token |-> "tok_old", refresh_token |-> "ref_old",
      expires_in |-> MaxExpiresIn + 1, expires_at |-> e] : e \in 0..(MaxTime + 1)}

InitFiles == {NoRecord(k) : k \in UnusableKinds} \cup OldRecords

\* An activity as the API returns it; description is a string, null or absent.
NoActivity ==
    [some |-> FALSE, id |-> 0, name |-> <<>>,
     description |-> [kind |-> "absent", val |-> <<>>]]

MorningRun == <<"M", "o", "r", "n", "i", "n", "g", " ", "R", "u", "n", " ", "F", "e", "l", "t", " ", "G", "r", "e", "a", "t">>

NiceDay == <<"N", "i", "c", "e", " ", "d", "a", "y">>

ActivityTitles == {MorningRun, <<"R", "u", "n">>}

ActivityDescriptions ==
    {[kind |-> "absent", val |-> <<>>], [kind |-> "null", val |-> <<>>],
     [kind |-> "str", val |-> <<>>],
     [kind |-> "str", val |-> format_description(NiceDay, 2)]}

Activities ==
    {[some |-> TRUE, id |-> 1, name |-> t, description |-> d] :
        t \in ActivityTitles, d \in ActivityDescriptions}

\* HTTP responses by status class: "2xx", "401", "4xx5xx" (an error status
\* other than 401) and "neterr" (no response: requests raises ConnectionError).
Response(status, tok, ref, exp, acts) ==
    [status |-> status, access_token |-> tok, refresh_token |-> ref,
     expires_in |-> exp, activities |-> acts]

NoResponse == Response("none", "", "", 0, <<>>)

TokenResponses ==
    {Response("2xx", t, "ref_new", x, <<>>) :
        t \in {"tok_a", "tok_b"}, x \in 1..MaxExpiresIn}
    \cup {Response("4xx5xx", "", "", 0, <<>>), Response("neterr", "", "", 0, <<>>)}

ActivityResponses ==
    {Response("2xx", "", "", 0, <<a>>) : a \in Activities}
    \cup {Response(s, "", "", 0, <<>>) : s \in {"2xx", "401", "4xx5xx", "neterr"}}

UpdateResponses ==
    {Response(s, "", "", 0, <<>>) : s \in {"2xx", "401", "4xx5xx", "neterr"}}

\* Requests the loopback listener can receive: without a code, or with one.
Codes == {"c1", "c2"}

Requests == {[has_code |-> FALSE, code |-> ""]}
            \cup {[has_code |-> TRUE, code |-> c] : c \in Codes}

\* Outcome of a function: what it returned or the exception it raised.
Outcome(fn, kind, exc, tok, ok, act) ==
    [fn |-> fn, kind |-> kind, exc |-> exc, token |-> tok, ok |-> ok,
     activity |-> act]

Pending(fn) == Outcome(fn, "pending", "", "", FALSE, NoActivity)

Raised(fn, exc) == Outcome(fn, "raise", exc, "", FALSE, NoActivity)

----------------------------------------------------------------------------
(* The functions of the program.                                           *)

load_tokens_flipped(f, t) ==
    \* the expiry test the wrong way round
    IF f.kind \in {"absent", "not_json"} THEN [exc |-> "", tokens |-> None]
    ELSE IF f.kind \in {"not_object", "bad_expires_at"}
         THEN [exc |-> "TypeError", tokens |-> None]
    ELSE IF f.kind = "no_expires_at" THEN [exc |-> "KeyError", tokens |-> None]
    ELSE IF t > f.expires_at THEN [exc |-> "", tokens |-> f]
    ELSE [exc |-> "", tokens |-> None]

load_tokens_inclusive(f, t) ==
    \* a record is still used at the very second it expires
    IF f.kind \in {"absent", "not_json"} THEN [exc |-> "", tokens |-> None]
    ELSE IF f.kind \in {"not_object", "bad_expires_at"}
         THEN [exc |-> "TypeError", tokens |-> None]
    ELSE IF f.kind = "no_expires_at" THEN [exc |-> "KeyError", tokens |-> None]
    ELSE IF t <= f.expires_at THEN [exc |-> "", tokens |-> f]
    ELSE [exc |-> "", tokens |-> None]

\* load_tokens() on file content f at time t: the exception that escapes it
\* ("" when none) and the value returned. open() raising FileNotFoundError
\* and json.load raising JSONDecodeError are caught; tokens['expires_at'] on
\* a value that is not an object raises TypeError, on an object without the
\* key KeyError, and the comparison with a non-number TypeError.
load_tokens(f, t) ==
    IF f.kind \in {"absent", "not_json"} THEN [exc |-> "", tokens |-> None]
    ELSE IF f.kind \in {"not_object", "bad_expires_at"}
         THEN [exc |-> "TypeError", tokens |-> None]
    ELSE IF f.kind = "no_expires_at" THEN [exc |-> "KeyError", tokens |-> None]
    ELSE IF t < f.expires_at THEN [exc |-> "", tokens |-> f]
    ELSE [exc |-> "", tokens |-> None]

waiting_never(code) ==
    \* the loop does not wait
    FALSE

waiting_forever(code) ==
    \* the loop tests something that never changes
    TRUE

\* Line 90: the condition of the wait loop, `server.auth_code is None`.
waiting(code) == code = "None"

shutdown_skipped(srv) ==
    \* the listener is left running
    srv

\* Lines 94-95: server.shutdown() and server.server_close().
shutdown(srv) == "closed"

\* save_tokens(tokens): the file holds exactly the JSON of tokens.
save_tokens(t) == t

raises_for_status_never(resp) ==
    \* the status of the response is not looked at
    FALSE

\* response.raise_for_status() raises HTTPError.
raises_for_status(resp) == resp.status \in {"401", "4xx5xx"}

exchanged_tokens_no_clock(resp, t) ==
    \* expires_at without the current time
    [kind |-> "record", access_token |-> resp.access_token,
     refresh_token |-> resp.refresh_token, expires_in |-> resp.expires_in,
     expires_at |-> resp.expires_in]

\* Lines 110-111: response.json() with expires_at added.
exchanged_tokens(resp, t) ==
    [kind |-> "record", access_token |-> resp.access_token,
     refresh_token |-> resp.refresh_token, expires_in |-> resp.expires_in,
     expires_at |-> t + resp.expires_in]

do_GET_accepts_any(req, code) ==
    \* the request is not checked for a code
    [auth_code |-> req.code, status |-> 200]

\* StravaAuthHandler.do_GET on request req while server.auth_code is code.
do_GET(req, code) ==
    IF req.has_code THEN [auth_code |-> req.code, status |-> 200]
    ELSE [auth_code |-> code, status |-> 400]

get_recent_activity_keeps_file(f, resp) ==
    \* a 401 handled like every other error status
    [file |-> f, removed |-> FALSE,
     out |-> Outcome("get_recent_activity", "return", "", "", FALSE,
                     IF resp.status = "2xx" /\ resp.activities # <<>>
                     THEN resp.activities[1] ELSE NoActivity)]

\* get_recent_activity(access_token, athlete_id) when the GET is answered
\* resp and the token file holds f: the file afterwards, whether os.remove
\* ran, and the outcome. os.remove of a file that does not exist raises
\* FileNotFoundError, which is no RequestException.
get_recent_activity(f, resp) ==
    LET none == Outcome("get_recent_activity", "return", "", "", FALSE, NoActivity)
    IN  IF resp.status = "neterr" THEN [file |-> f, removed |-> FALSE, out |-> none]
        ELSE IF resp.status = "401"
             THEN IF f.kind = "absent"
                  THEN [file |-> f, removed |-> FALSE,
                        out |-> Raised("get_recent_activity", "FileNotFoundError")]
                  ELSE [file |-> Absent, removed |-> TRUE, out |-> none]
        ELSE IF raises_for_status(resp)
             THEN [file |-> f, removed |-> FALSE, out |-> none]
        ELSE IF resp.activities = <<>>
             THEN [file |-> f, removed |-> FALSE, out |-> none]
        ELSE [file |-> f, removed |-> FALSE,
              out |-> Outcome("get_recent_activity", "return", "", "", FALSE,
                              resp.activities[1])]

update_activity_description_always_true(resp) ==
    \* the except branch returns True as well
    TRUE

\* update_activity_description(...) when the PUT is answered resp.
update_activity_description(resp) ==
    IF resp.status = "neterr" THEN FALSE
    ELSE IF raises_for_status(resp) THEN FALSE
    ELSE TRUE

\* activity.get('description', '')
current_description(act) ==
    IF act.description.kind = "absent" THEN [kind |-> "str", val |-> <<>>]
    ELSE act.description

main_update_unconditional(act) ==
    \* the orchestration without its `if activity:`
    TRUE

\* `if activity:` of the orchestration.
activity_found(act) == act.some

----------------------------------------------------------------------------
(* The program: get_access_token step by step, the listener thread, the    *)
(* orchestration, and the data calls made on their own.                    *)

Log(e) == events' = Append(events, e)

Init ==
    /\ file \in InitFiles
    /\ now = 0
    /\ pc = "idle" /\ caller = "none"
    /\ server = "none" /\ auth_code = "None" /\ http_reply = 0 /\ data = ""
    /\ tokens = None /\ response = NoResponse
    /\ retval = Pending("none")
    /\ activity = NoActivity /\ new_description = <<>>
    /\ events = <<>> /\ fileAtCall = file /\ loadNow = -1
    /\ rejected = FALSE /\ run = "none"
    /\ lastReq = "" /\ firstCode = "" /\ waitCode = "" /\ postNow = -1
    /\ title = <<>> /\ word_count = -1 /\ description = <<>>
    /\ prev = <<>> /\ applied = 0 /\ tpc = "off"

\* A run or a call begins: locals and the histories of the run are fresh.
Begin(fn) ==
    /\ retval' = Pending(fn)
    /\ server' = "none" /\ auth_code' = "None" /\ http_reply' = 0 /\ data' = ""
    /\ tokens' = None /\ activity' = NoActivity /\ new_description' = <<>>
    /\ fileAtCall' = file /\ loadNow' = -1
    /\ lastReq' = "" /\ firstCode' = "" /\ waitCode' = "" /\ postNow' = -1

\* Line 218: the script starts and calls get_access_token.
StartMain ==
    /\ pc = "idle"
    /\ pc' = "gat_load" /\ caller' = "main"
    /\ Begin("get_access_token")
    /\ events' = <<>> /\ response' = NoResponse
    /\ UNCHANGED <<file, now, rejected>>
    /\ run' = "main"
    /\ UNCHANGED textVars

\* get_access_token called on its own.
CallGetAccessToken ==
    /\ pc = "idle"
    /\ pc' = "gat_load" /\ caller' = "test"
    /\ Begin("get_access_token")
    /\ events' = <<>> /\ response' = NoResponse
    /\ UNCHANGED <<file, now, rejected>>
    /\ run' = "test"
    /\ UNCHANGED textVars

\* get_access_token ends with outcome out: the orchestration goes on after a
\* return; an exception ends the process.
GatFinish(out) ==
    /\ retval' = out
    /\ IF caller = "main" /\ out.kind = "return"
       THEN pc' = "main_fetch" /\ caller' = caller
       ELSE pc' = "idle" /\ caller' = "none"

\* Lines 62-65.
GatLoad ==
    /\ pc = "gat_load"
    /\ LET r == load_tokens(file, now)
       IN  /\ loadNow' = now
           /\ IF r.exc # ""
              THEN GatFinish(Raised("get_access_token", r.exc)) /\ tokens' = tokens
              ELSE IF r.tokens.kind = "record"
              THEN /\ GatFinish(Outcome("get_access_token", "return", "",
                                        r.tokens.access_token, FALSE, NoActivity))
                   /\ tokens' = r.tokens
              ELSE /\ pc' = "gat_listen" /\ tokens' = r.tokens
                   /\ UNCHANGED <<caller, retval>>
    /\ UNCHANGED <<file, now, server, auth_code, http_reply, data, response,
                   activity, new_description, events, fileAtCall, rejected>>
    /\ UNCHANGED run
    /\ UNCHANGED histVars
    /\ UNCHANGED textVars

\* Lines 70-76: the listener thread is started.
GatListen ==
    /\ pc = "gat_listen"
    /\ server' = "serving" /\ auth_code' = "None"
    /\ Log("listen")
    /\ pc' = "gat_browser"
    /\ UNCHANGED <<file, now, caller, http_reply, data, tokens, response, retval,
                   activity, new_description, fileAtCall, loadNow, rejected>>
    /\ UNCHANGED run
    /\ UNCHANGED histVars
    /\ UNCHANGED textVars

\* Line 87.
GatBrowser ==
    /\ pc = "gat_browser"
    /\ Log("browser")
    /\ pc' = "gat_wait"
    /\ UNCHANGED <<file, now, caller, server, auth_code, http_reply, data, tokens,
                   response, retval, activity, new_description, fileAtCall,
                   loadNow, rejected>>
    /\ UNCHANGED run
    /\ UNCHANGED histVars
    /\ UNCHANGED textVars

\* Lines 90-91: the loop is left once server.auth_code is set.
GatWait ==
    /\ pc = "gat_wait"
    /\ ~waiting(auth_code)
    /\ waitCode' = auth_code
    /\ pc' = "gat_shutdown"
    /\ UNCHANGED <<file, now, caller, server, auth_code, http_reply, data, tokens,
                   response, retval, activity, new_description, events,
                   fileAtCall, loadNow, rejected>>
    /\ UNCHANGED run
    /\ UNCHANGED <<lastReq, firstCode, postNow>>
    /\ UNCHANGED textVars

\* Lines 94-95.
GatShutdown ==
    /\ pc = "gat_shutdown"
    /\ server' = shutdown(server)
    /\ Log("shutdown")
    /\ pc' = "gat_post"
    /\ UNCHANGED <<file, now, caller, auth_code, http_reply, data, tokens,
                   response, retval, activity, new_description, fileAtCall,
                   loadNow, rejected>>
    /\ UNCHANGED run
    /\ UNCHANGED histVars
    /\ UNCHANGED textVars

\* Lines 99-107: the exchange POST and raise_for_status.
GatPost ==
    /\ pc = "gat_post"
    /\ \E resp \in TokenResponses :
        /\ response' = resp
        /\ data' = auth_code
        /\ postNow' = now
        /\ Log("post")
        /\ IF resp.status = "neterr"
           THEN GatFinish(Raised("get_access_token", "ConnectionError"))
           ELSE IF raises_for_status(resp)
           THEN GatFinish(Raised("get_access_token", "HTTPError"))
           ELSE pc' = "gat_save" /\ UNCHANGED <<caller, retval>>
    /\ UNCHANGED <<file, now, server, auth_code, http_reply, tokens, activity,
                   new_description, fileAtCall, loadNow, rejected>>
    /\ UNCHANGED run
    /\ UNCHANGED <<lastReq, firstCode, waitCode>>
    /\ UNCHANGED textVars

\* Lines 110-112.
GatSave ==
    /\ pc = "gat_save"
    /\ tokens' = exchanged_tokens(response, now)
    /\ file' = save_tokens(tokens')
    /\ Log("save")
    /\ rejected' = FALSE
    /\ pc' = "gat_return"
    /\ UNCHANGED <<now, caller, server, auth_code, http_reply, data, response,
                   retval, activity, new_description, fileAtCall, loadNow>>
    /\ UNCHANGED run
    /\ UNCHANGED histVars
    /\ UNCHANGED textVars

\* Line 114.
GatReturn ==
    /\ pc = "gat_return"
    /\ GatFinish(Outcome("get_access_token", "return", "", tokens.access_token,
                         FALSE, NoActivity))
    /\ UNCHANGED <<file, now, server, auth_code, http_reply, data, tokens,
                   response, activity, new_description, events, fileAtCall,
                   loadNow, rejected>>
    /\ UNCHANGED run
    /\ UNCHANGED histVars
    /\ UNCHANGED textVars

\* The listener thread handles one request (serve_forever is running).
Listener ==
    /\ server = "serving"
    /\ \E req \in Requests :
        LET r == do_GET(req, auth_code)
        IN  /\ auth_code' = r.auth_code /\ http_reply' = r.status
            /\ lastReq' = IF req.has_code THEN req.code ELSE "nocode"
            /\ firstCode' = IF firstCode = "" /\ req.has_code
                            THEN req.code ELSE firstCode
    /\ UNCHANGED <<file, now, pc, caller, server, data, tokens, response, retval,
                   activity, new_description, events, fileAtCall, loadNow,
                   rejected>>
    /\ UNCHANGED run
    /\ UNCHANGED <<waitCode, postNow>>
    /\ UNCHANGED textVars

\* Line 222: the orchestration calls get_recent_activity.
MainFetch ==
    /\ pc = "main_fetch"
    /\ \E resp \in ActivityResponses :
        LET r == get_recent_activity(file, resp)
        IN  /\ response' = resp
            /\ file' = r.file
            /\ events' = events \o <<"get">>
                         \o (IF r.removed THEN <<"remove">> ELSE <<>>)
            /\ rejected' = (rejected \/ resp.status = "401")
            /\ retval' = r.out
            /\ fileAtCall' = file
            /\ IF r.out.kind = "raise"
               THEN pc' = "idle" /\ caller' = "none" /\ activity' = activity
               ELSE pc' = "main_if" /\ caller' = caller
                    /\ activity' = r.out.activity
    /\ UNCHANGED <<now, server, auth_code, http_reply, data, tokens,
                   new_description, loadNow>>
    /\ UNCHANGED run
    /\ UNCHANGED histVars
    /\ UNCHANGED textVars

\* Line 224.
MainIf ==
    /\ pc = "main_if"
    /\ IF activity_found(activity)
       THEN pc' = "main_describe" /\ caller' = caller
       ELSE pc' = "idle" /\ caller' = "none"
    /\ UNCHANGED <<file, now, server, auth_code, http_reply, data, tokens,
                   response, retval, activity, new_description, events,
                   fileAtCall, loadNow, rejected>>
    /\ UNCHANGED run
    /\ UNCHANGED histVars
    /\ UNCHANGED textVars

\* Lines 226-234. `"yap score:" in None` raises TypeError.
MainDescribe ==
    /\ pc = "main_describe"
    /\ LET cur == current_description(activity)
       IN  IF cur.kind = "null"
           THEN /\ retval' = Raised("main", "TypeError")
                /\ pc' = "idle" /\ caller' = "none"
                /\ UNCHANGED new_description
           ELSE /\ new_description' = rewrite(cur.val, count_words(activity.name))
                /\ pc' = "main_update"
                /\ UNCHANGED <<caller, retval>>
    /\ UNCHANGED <<file, now, server, auth_code, http_reply, data, tokens,
                   response, activity, events, fileAtCall, loadNow, rejected>>
    /\ UNCHANGED run
    /\ UNCHANGED histVars
    /\ UNCHANGED textVars

\* Lines 236-239.
MainUpdate ==
    /\ pc = "main_update"
    /\ \E resp \in UpdateResponses :
        /\ response' = resp
        /\ retval' = Outcome("update_activity_description", "return", "", "",
                             update_activity_description(resp), NoActivity)
    /\ Log("put")
    /\ fileAtCall' = file
    /\ pc' = "idle" /\ caller' = "none"
    /\ UNCHANGED <<file, now, server, auth_code, http_reply, data, tokens,
                   activity, new_description, loadNow, rejected>>
    /\ UNCHANGED run
    /\ UNCHANGED histVars
    /\ UNCHANGED textVars

\* get_recent_activity called on its own.
CallGetRecentActivity ==
    /\ pc = "idle"
    /\ \E resp \in ActivityResponses :
        LET r == get_recent_activity(file, resp)
        IN  /\ response' = resp
            /\ file' = r.file
            /\ events' = <<"get">> \o (IF r.removed THEN <<"remove">> ELSE <<>>)
            /\ rejected' = (rejected \/ resp.status = "401")
            /\ retval' = r.out
    /\ server' = "none" /\ auth_code' = "None" /\ http_reply' = 0 /\ data' = ""
    /\ tokens' = None /\ activity' = NoActivity /\ new_description' = <<>>
    /\ fileAtCall' = file /\ loadNow' = -1
    /\ lastReq' = "" /\ firstCode' = "" /\ waitCode' = "" /\ postNow' = -1
    /\ UNCHANGED <<now, pc, caller>>
    /\ run' = "test"
    /\ UNCHANGED textVars

\* update_activity_description called on its own.
CallUpdateActivityDescription ==
    /\ pc = "idle"
    /\ \E resp \in UpdateResponses :
        /\ response' = resp
        /\ retval' = Outcome("update_activity_description", "return", "", "",
                             update_activity_description(resp), NoActivity)
    /\ events' = <<"put">>
    /\ server' = "none" /\ auth_code' = "None" /\ http_reply' = 0 /\ data' = ""
    /\ tokens' = None /\ activity' = NoActivity /\ new_description' = <<>>
    /\ fileAtCall' = file /\ loadNow' = -1
    /\ lastReq' = "" /\ firstCode' = "" /\ waitCode' = "" /\ postNow' = -1
    /\ UNCHANGED <<file, now, pc, caller, rejected>>
    /\ run' = "test"
    /\ UNCHANGED textVars

\* Time passes.
Tick ==
    /\ now < MaxTime
    /\ now' = now + 1
    /\ UNCHANGED <<file, pc, caller, server, auth_code, http_reply, data, tokens,
                   response, retval, activity, new_description, events,
                   fileAtCall, loadNow, rejected>>
    /\ UNCHANGED run
    /\ UNCHANGED histVars
    /\ UNCHANGED textVars

Next ==
    \/ StartMain
    \/ CallGetAccessToken
    \/ GatLoad
    \/ GatListen
    \/ GatBrowser
    \/ GatWait
    \/ GatShutdown
    \/ GatPost
    \/ GatSave
    \/ GatReturn
    \/ Listener
    \/ MainFetch
    \/ MainIf
    \/ MainDescribe
    \/ MainUpdate
    \/ CallGetRecentActivity
    \/ CallUpdateActivityDescription
    \/ Tick

Spec == Init /\ [][Next]_vars

\* The steps of the main thread inside get_access_token.
MainThread ==
    \/ GatLoad
    \/ GatListen
    \/ GatBrowser
    \/ GatWait
    \/ GatShutdown
    \/ GatPost
    \/ GatSave
    \/ GatReturn

\* The main thread is scheduled again and again, and every HTTP exchange it
\* starts ends, with an answer or with a transport error.
SpecFair == Init /\ [][Next]_vars /\ WF_vars(MainThread)

----------------------------------------------------------------------------
(* The text specification: the orchestration's transform, run after run,   *)
(* on every title and description of the bounded sets, without the HTTP    *)
(* calls around it.                                                        *)

TextInit ==
    /\ file = Absent
    /\ now = 0
    /\ pc = "off" /\ caller = "none"
    /\ server = "none" /\ auth_code = "None" /\ http_reply = 0 /\ data = ""
    /\ tokens = None /\ response = NoResponse
    /\ retval = Pending("none")
    /\ activity = NoActivity /\ new_description = <<>>
    /\ events = <<>> /\ fileAtCall = file /\ loadNow = -1
    /\ rejected = FALSE /\ run = "none"
    /\ lastReq = "" /\ firstCode = "" /\ waitCode = "" /\ postNow = -1
    /\ title \in Titles
    /\ description \in Descriptions
    /\ word_count = -1
    /\ prev = description /\ applied = 0 /\ tpc = "title"

\* Lines 227-228.
TCountWords ==
    /\ tpc = "title"
    /\ word_count' = count_words(title)
    /\ tpc' = "counted"
    /\ UNCHANGED <<title, description, prev, applied>>
    /\ UNCHANGED progVars

\* Lines 231-234, and the activity now carries the new description.
TRewrite ==
    /\ tpc = "counted"
    /\ prev' = description
    /\ description' = rewrite(description, word_count)
    /\ applied' = applied + 1
    /\ tpc' = "written"
    /\ UNCHANGED <<title, word_count>>
    /\ UNCHANGED progVars

\* The next run finds the activity, possibly renamed.
TNextRun ==
    /\ tpc = "written"
    /\ applied < MaxApplied
    /\ \E t \in NextTitles \cup {title} :
        title' = t
    /\ word_count' = -1
    /\ tpc' = "title"
    /\ UNCHANGED <<description, prev, applied>>
    /\ UNCHANGED progVars

TextNext ==
    \/ TCountWords
    \/ TRewrite
    \/ TNextRun

SpecText == TextInit /\ [][TextNext]_vars

----------------------------------------------------------------------------
(* Properties.                                                             *)

\* Number of times e occurs in the history of the run.
Count(e) == Cardinality({i \in 1..Len(events) : events[i] = e})

\* The steps of the interactive authorization, in the order of the code.
InteractiveFlow == <<"listen", "browser", "shutdown", "post", "save">>

IsPrefix(s, t) == Len(s) <= Len(t) /\ SubSeq(t, 1, Len(s)) = s

\* A get_access_token call has run load_tokens and is running or was the
\* last call to finish.
GatLoaded == retval.fn = "get_access_token" /\ loadNow # -1

\* Number of maximal runs of non-whitespace characters of s.
RunCount(s) ==
    Cardinality({i \in 1..Len(s) :
        s[i] \notin Whitespace /\ (i = 1 \/ s[i - 1] \in Whitespace)})

\* The number a string of decimal digits denotes, -1 when it is no such string.
RECURSIVE ParseNat(_)
ParseNat(ds) ==
    IF ds = <<>> THEN -1
    ELSE LET last == ds[Len(ds)]
             d == IF \E k \in 1..10 : Digits[k] = last
                  THEN (CHOOSE k \in 1..10 : Digits[k] = last) - 1 ELSE -1
             front == SubSeq(ds, 1, Len(ds) - 1)
         IN  IF d = -1 THEN -1
             ELSE IF front = <<>> THEN d
             ELSE IF ParseNat(front) = -1 THEN -1
             ELSE 10 * ParseNat(front) + d

\* The number written after the first "yap score:" of d and one blank,
\* -1 when d does not read so.
YapValue(d) ==
    IF ~Contains(Marker, d) THEN -1
    ELSE LET rest == SubSeq(d, Len(SplitFirst(d, Marker)) + Len(Marker) + 1, Len(d))
         IN  IF rest = <<>> \/ Head(rest) # " " THEN -1 ELSE ParseNat(Tail(rest))

\* C1: when load_tokens finds a record whose expires_at is strictly greater
\* than the current time, get_access_token returns that record's
\* access_token, and the call starts no listener, opens no browser, sends no
\* POST and leaves the token file as it was.
C1_ValidCacheIsReturnedWithoutEffects ==
    (GatLoaded /\ fileAtCall.kind = "record" /\ fileAtCall.expires_at > loadNow)
    => /\ retval.kind = "return"
       /\ retval.token = fileAtCall.access_token
       /\ events = <<>>
       /\ server = "none"
       /\ response = NoResponse
       /\ file = fileAtCall

C1_Witness ==
    /\ GatLoaded /\ retval.kind = "return"
    /\ fileAtCall.kind = "record" /\ fileAtCall.expires_at > loadNow
    /\ retval.token = "tok_old"

\* C2: whatever unusable content the token file has (absent, not JSON, not
\* an object, no expires_at, expires_at not a number), the cache load raises
\* nothing and get_access_token goes on to the interactive authorization.
C2_UnusableFileIsNoCachedToken ==
    (GatLoaded /\ fileAtCall.kind \in UnusableKinds)
    => /\ ~(retval.kind = "raise" /\ events = <<>>)
       /\ pc = "gat_listen" \/ (events # <<>> /\ Head(events) = "listen")

\* C3: when the activities GET answers 401, get_recent_activity returns
\* "no activity" without raising and the token file does not exist
\* afterwards, whether or not it existed before.
C3_UnauthorizedRemovesFileAndReturnsNone ==
    (retval.fn = "get_recent_activity" /\ response.status = "401")
    => /\ retval.kind = "return"
       /\ ~retval.activity.some
       /\ file.kind = "absent"

C5_ExpiredRecordIsTreatedAsMissingFile ==
    (GatLoaded /\ (\/ fileAtCall.kind = "absent"
                   \/ (fileAtCall.kind = "record" /\ loadNow >= fileAtCall.expires_at)))
    => /\ load_tokens(fileAtCall, loadNow) = load_tokens(Absent, loadNow)
       /\ IsPrefix(events, InteractiveFlow)
       /\ retval.kind = "pending" => pc \in {"gat_listen", "gat_browser", "gat_wait",
                                             "gat_shutdown", "gat_post", "gat_save",
                                             "gat_return"}
       /\ retval.kind = "raise" => retval.exc \in {"HTTPError", "ConnectionError"}
                                   /\ events = SubSeq(InteractiveFlow, 1, 4)
       /\ retval.kind = "return"
          => /\ events = InteractiveFlow
             /\ data \in Codes
             /\ retval.token = response.access_token
             /\ \E t \in loadNow..now :
                    file = [kind |-> "record",
                            access_token |-> response.access_token,
                            refresh_token |-> response.refresh_token,
                            expires_in |-> response.expires_in,
                            expires_at |-> t + response.expires_in]

C5_Witness ==
    /\ GatLoaded /\ retval.kind = "return"
    /\ fileAtCall.kind = "record" /\ loadNow = fileAtCall.expires_at
    /\ file.access_token = "tok_a"

C8_RewriteLeavesOneScoreOfTheLatestTitle ==
    tpc = "written"
    => /\ Cardinality(Occurrences(Marker, description)) = 1
       /\ YapValue(description) = count_words(title)
       /\ (Contains(Marker, prev) \/ Strip(prev) = prev)
          => rewrite(description, count_words(title)) = description

C8_Witness ==
    /\ tpc = "written" /\ applied = 2
    /\ description = prev
    /\ YapValue(description) = 2

C10_CountWordsIsNumberOfRuns ==
    word_count # -1
    => /\ word_count = RunCount(title)
       /\ (\A i \in 1..Len(title) : title[i] \in Whitespace) => word_count = 0

C10_Witness ==
    /\ tpc = "counted" /\ word_count = 0
    /\ Len(title) = 2

\* The value of "kind" a finished call has.
Finished == {"return", "raise"}

\* The token file is the record made of the exchange response at a time
\* between from and now.
SavedFromResponse(from) ==
    \E t \in from..now :
        file = [kind |-> "record",
                access_token |-> response.access_token,
                refresh_token |-> response.refresh_token,
                expires_in |-> response.expires_in,
                expires_at |-> t + response.expires_in]

\* s ends with suffix.
EndsWith(s, suffix) ==
    /\ Len(suffix) <= Len(s)
    /\ SubSeq(s, Len(s) - Len(suffix) + 1, Len(s)) = suffix

\* C11: a get_access_token call that finds no valid cache goes through
\* NoToken (nothing started), AwaitingCallback (listener started, then the
\* browser opened), ExchangingCode (a code captured and the listener closed,
\* then the POST) and Cached (the file written after a 2xx answer, before the
\* return) in this order, each at most once; a call that ends with an
\* exception stops on the way, it never goes out of order.
C11_AuthorizationStatesInOrder ==
    retval.fn = "get_access_token"
    => /\ IsPrefix(events, InteractiveFlow)
       /\ pc = "gat_listen" => events = <<>> /\ server = "none"
       /\ pc = "gat_browser" => events = <<"listen">> /\ server = "serving"
       /\ pc \in {"gat_wait", "gat_shutdown"}
          => events = <<"listen", "browser">> /\ server = "serving"
       /\ pc = "gat_shutdown" => auth_code \in Codes
       /\ pc = "gat_post"
          => /\ events = <<"listen", "browser", "shutdown">>
             /\ server = "closed" /\ auth_code \in Codes
             /\ response = NoResponse
       /\ pc = "gat_save"
          => /\ events = <<"listen", "browser", "shutdown", "post">>
             /\ response.status = "2xx" /\ data \in Codes
             /\ file = fileAtCall
       /\ pc = "gat_return"
          => /\ events = InteractiveFlow
             /\ response.status = "2xx" /\ file = tokens
       /\ Count("save") = 1 => response.status = "2xx" /\ server = "closed"
       /\ retval.kind = "return"
          => \/ events = InteractiveFlow
             \/ /\ events = <<>> /\ fileAtCall.kind = "record"
                /\ loadNow < fileAtCall.expires_at
       /\ (retval.kind = "raise" /\ events # <<>>)
          => events = <<"listen", "browser", "shutdown", "post">>

C11_Witness ==
    /\ retval.fn = "get_access_token" /\ pc = "gat_return"
    /\ events = InteractiveFlow /\ fileAtCall.kind = "absent"

\* C12: a callback request without a code is answered 400 and leaves the
\* code unset; one with a code is answered 200 and its code recorded; the
\* main thread is past the wait only when a code-bearing request was handled.
C12_OnlyACodeBearingCallbackEndsTheWait ==
    /\ lastReq = "nocode" => http_reply = 400
    /\ lastReq \in Codes => http_reply = 200 /\ auth_code = lastReq
    /\ firstCode = "" => auth_code = "None" /\ waitCode = ""
    /\ (retval.fn = "get_access_token"
        /\ (pc \in {"gat_shutdown", "gat_post", "gat_save", "gat_return"}
            \/ Count("shutdown") = 1))
       => firstCode \in Codes /\ waitCode \in Codes

C12_Witness ==
    /\ pc = "gat_wait" /\ lastReq = "nocode" /\ http_reply = 400
    /\ auth_code = "None"

C14_ListenerRunsOnlyInsideAnAuthorization ==
    /\ Count("listen") <= 1
    /\ Count("listen") - Count("shutdown") = (IF server = "serving" THEN 1 ELSE 0)
    /\ server = "serving"
       => /\ retval = Pending("get_access_token")
          /\ pc \in {"gat_browser", "gat_wait", "gat_shutdown"}
    /\ (GatLoaded /\ fileAtCall.kind = "record" /\ fileAtCall.expires_at > loadNow)
       => server = "none" /\ Count("listen") = 0
    /\ (retval.fn = "get_access_token" /\ retval.kind \in Finished)
       => server # "serving"
    /\ pc = "idle" => server # "serving"

C14_Witness ==
    /\ retval.fn = "get_access_token" /\ retval.kind = "raise"
    /\ retval.exc = "HTTPError" /\ server = "closed" /\ pc = "idle"

\* C15: when get_access_token returns after an exchange, the token file is
\* the endpoint's response with expires_at = (the time read once the
\* response is there) + expires_in, whatever the file held before; and on
\* both paths the value returned is the access_token of the record in the
\* file at the return.
C15_PersistedRecordIsTheResponse ==
    /\ (retval.fn = "get_access_token" /\ pc = "gat_return")
       => SavedFromResponse(postNow) /\ tokens = file
    /\ (retval.fn = "get_access_token" /\ retval.kind = "return")
       => /\ file.kind = "record"
          /\ retval.token = file.access_token
          /\ events # <<>> => postNow # -1 /\ SavedFromResponse(postNow)
          /\ events = <<>> => file = fileAtCall

C15_Witness ==
    /\ retval.fn = "get_access_token" /\ retval.kind = "return"
    /\ events = InteractiveFlow /\ fileAtCall.kind = "record"
    /\ postNow > 0 /\ file.expires_at = postNow + response.expires_in

\* C16: the description written is the prior description up to the first
\* "yap score:" with its trailing whitespace alone trimmed (or the whole
\* prior description when the marker is absent), then "\n\nyap score: N",
\* N = count_words(title).
C16_RewriteTrimsTrailingWhitespaceOnly ==
    tpc = "written"
    => description =
         (IF Contains(Marker, prev) THEN RStrip(SplitFirst(prev, Marker)) ELSE prev)
         \o <<"\n", "\n">> \o Marker \o <<" ">> \o Str(count_words(title))

\* C17: the code sent in the exchange POST is the code that ended the wait,
\* whatever the listener handled between the end of the wait and its
\* shutdown.
C17_ExchangedCodeIsTheOneThatEndedTheWait ==
    (retval.fn = "get_access_token" /\ data # "") => data = waitCode

\* C18: for every activity the fetch returned, the description null or
\* absent included, the orchestration ends with one update PUT whose
\* description ends with "yap score: N", N the word count of the title.
C18_EveryActivityGetsItsScore ==
    (run = "main" /\ pc = "idle" /\ activity.some)
    => /\ retval.fn = "update_activity_description"
       /\ retval.kind = "return"
       /\ Count("put") = 1
       /\ EndsWith(new_description,
                   Marker \o <<" ">> \o Str(count_words(activity.name)))

====
